---- MODULE Spec2Model ----
(***************************************************************************)
(* tange-collection: the lazy, partitioned Collection algebra (lib.rs) and *)
(* the Accumulator / ValueWriter / Stream storage backends                 *)
(* (interfaces.rs).                                                        *)
(*                                                                         *)
(* A Deferred<A> is a term: a lifted value, a function applied to one      *)
(* Deferred, or a function joining two.  A closure is a record naming the  *)
(* closure of the source (kind) and the values it captures.  Building a    *)
(* term computes nothing; Eval resolves a term, as the scheduler does.     *)
(***************************************************************************)
EXTENDS Integers, Sequences, FiniteSets, TLC

\* ------------------------------------------------------------------ bounds
MaxElem == 1       \* elements are 0..MaxElem
MaxLen == 3        \* longest vector handed to from_vec
MaxAnyLen == 1     \* the same, where every call of the API is free to follow
MaxParts == 2      \* partition counts handed to split / partition are 0..MaxParts
MaxColls == 2      \* Collections built, where every call of the API is free to follow
MaxBuf == 2        \* longest buffer of a write session
MaxSessions == 2   \* write sessions opened on the disk backend

VARIABLES
  colls,      \* the Collections built so far, in order of construction
  out,        \* what the last call of run returned, and on which Collection
  files,      \* the files sink wrote: <<path, index>> -> bytes
  dirs,       \* the directories that exist for sink
  forced,     \* TRUE once the scheduler has been asked to resolve a Deferred
  panicked,   \* TRUE once a call has panicked (the calling thread is gone)
  limit,      \* the number of Collections, or of write sessions, of the program
  accs,       \* storage: the Accumulator values the program holds
  writers,    \* storage: the DiskBuffer of every write session
  disk,       \* storage: file name -> serialized bytes
  streamed    \* storage: what the last call of stream returned

vars ==
  <<colls, out, files, dirs, forced, panicked, limit, accs, writers, disk, streamed>>
collVars == <<colls, out, files, dirs, forced, panicked, limit>>
diskVars == <<accs, writers, disk, streamed>>

Elem == 0..MaxElem
Vecs == UNION {[1..n -> Elem] : n \in 0..MaxLen}
AnyVecs == UNION {[1..n -> Elem] : n \in 0..MaxAnyLen}

None == <<>>
Some(x) == <<x>>

Max(a, b) == IF a >= b THEN a ELSE b

RECURSIVE Cat(_)
\* the concatenation of a sequence of sequences
Cat(ss) == IF ss = <<>> THEN <<>> ELSE Head(ss) \o Cat(Tail(ss))

RECURSIVE Perms(_)
\* every sequence that lists the set s once
Perms(s) ==
  IF s = {} THEN {<<>>}
  ELSE UNION {{<<x>> \o p : p \in Perms(s \ {x})} : x \in s}

\* --------------------------------------------------- the user's functions
\* The functions a program hands to the library, by name.

\* f of map: a table over Elem ("tbl"), or x -> vec![x, x] ("dup")
MapF(fn, e) ==
  CASE fn.f = "tbl" -> fn.tbl[e + 1]
    [] fn.f = "dup" -> <<e, e>>

\* f of filter
FilterF(f, e) ==
  CASE f = "nonzero" -> e # 0
    [] f = "zero" -> e = 0

\* key of fold_by, partition_by_key and sort_by
KeyF(f, e) ==
  CASE f = "id" -> e
    [] f = "parity" -> e % 2
    [] f = "const" -> 0
    [] f = "rev" -> MaxElem - e

\* DefaultHasher over a key, as usize: a fixed function of the key
Hash(k) == (k * 40503 + 17) % 65536

\* f of partition: (local index, element) -> usize
PartF(f, key, idx, e) ==
  CASE f = "idx" -> idx
    [] f = "elem" -> e
    [] f = "sum" -> idx + e
    [] f = "hash" -> Hash(KeyF(key, e))

\* binop of fold_by: (accumulator, element) -> accumulator
BinopF(f, acc, e) ==
  CASE f = "inc" -> acc + 1
    [] f = "add" -> acc + e
    [] f = "max" -> Max(acc, e)

\* reduce of fold_by: (accumulator, accumulator) -> accumulator
ReduceF(f, x, y) ==
  CASE f = "add" -> x + y
    [] f = "max" -> Max(x, y)

\* ------------------------------------------------------------- Deferred
NoFn ==
  [kind |-> "none", f |-> "", tbl |-> <<>>, key |-> "", n |-> 0, idx |-> 0,
   pos |-> 0, path |-> "", dflt |-> 0, binop |-> "", reduce |-> ""]

\* Deferred::lift
Lift(v) == [op |-> "lift", fn |-> NoFn, val |-> v, deps |-> <<>>]

\* Deferred::apply
Apply(d, fn) == [op |-> "apply", fn |-> fn, val |-> <<>>, deps |-> <<d>>]

\* Deferred::join
Join(l, r, fn) == [op |-> "join", fn |-> fn, val |-> <<>>, deps |-> <<l, r>>]

\* batch_apply: the closure applied to every Deferred, with its position
batch_apply(defs, fn) ==
  [i \in 1..Len(defs) |-> Apply(defs[i], [fn EXCEPT !.pos = i - 1])]

\* one level of the combine tree: neighbours joined, an odd last one kept
TreePass(defs, fn) ==
  [i \in 1..((Len(defs) + 1) \div 2) |->
     IF 2 * i <= Len(defs) THEN Join(defs[2 * i - 1], defs[2 * i], fn)
     ELSE defs[2 * i - 1]]

RECURSIVE tree_reduce(_, _)
\* tree_reduce: None for no Deferred, else the root of the balanced tree
tree_reduce(defs, fn) ==
  IF Len(defs) = 0 THEN None
  ELSE IF Len(defs) = 1 THEN Some(defs[1])
  ELSE tree_reduce(TreePass(defs, fn), fn)

\* ------------------------------------------------- the closures of lib.rs
MapFn(f, tbl) == [NoFn EXCEPT !.kind = "map", !.f = f, !.tbl = tbl]
FilterFn(f) == [NoFn EXCEPT !.kind = "filter", !.f = f]
BucketFn(n, f, key) == [NoFn EXCEPT !.kind = "bucket", !.n = n, !.f = f, !.key = key]
PickFn(idx) == [NoFn EXCEPT !.kind = "pick", !.idx = idx]
ConcatFn == [NoFn EXCEPT !.kind = "concat"]
FoldFn(key, dflt, binop) ==
  [NoFn EXCEPT !.kind = "fold", !.key = key, !.dflt = dflt, !.binop = binop]
MergeFn(reduce) == [NoFn EXCEPT !.kind = "merge", !.reduce = reduce]
ToVecFn == [NoFn EXCEPT !.kind = "to_vec"]
SortFn(key) == [NoFn EXCEPT !.kind = "sort", !.key = key]
FlattenFn == [NoFn EXCEPT !.kind = "flatten"]
LenFn == [NoFn EXCEPT !.kind = "len"]
PlusFn == [NoFn EXCEPT !.kind = "plus"]
Vec1Fn == [NoFn EXCEPT !.kind = "vec1"]
SinkFn(path) == [NoFn EXCEPT !.kind = "sink", !.path = path]

\* the local bucket with f given the position counted from 1
Bucket_from_one(fn, vs, b) ==
  LET at == SelectSeq([i \in 1..Len(vs) |-> i],
                      LAMBDA i : PartF(fn.f, fn.key, i, vs[i]) % fn.n = b)
  IN [j \in 1..Len(at) |-> vs[at[j]]]

\* the local bucket b of partition's first stage: the elements x of vs, in order,
\* with f(idx, x) % partitions = b
Bucket(fn, vs, b) ==
  LET at == SelectSeq([i \in 1..Len(vs) |-> i],
                      LAMBDA i : PartF(fn.f, fn.key, i - 1, vs[i]) % fn.n = b)
  IN [j \in 1..Len(at) |-> vs[at[j]]]

RECURSIVE FoldKey(_, _, _, _)
\* the entry of key k in fold_by's reducer after the elements vs, from acc
FoldKey(fn, vs, k, acc) ==
  IF vs = <<>> THEN acc
  ELSE FoldKey(fn, Tail(vs), k,
               IF KeyF(fn.key, Head(vs)) = k THEN BinopF(fn.binop, acc, Head(vs))
               ELSE acc)

\* fold_by's first stage on one partition: a HashMap, as a function on its keys
FoldLocal(fn, vs) ==
  [k \in {KeyF(fn.key, vs[i]) : i \in 1..Len(vs)} |-> FoldKey(fn, vs, k, fn.dflt)]

\* the block join that keeps the left entry of a key of both sides
MergeMaps_keep_left(fn, left, right) ==
  [k \in DOMAIN left \cup DOMAIN right |->
     IF k \in DOMAIN left THEN left[k] ELSE right[k]]

\* fold_by's block join: right merged into a clone of left
MergeMaps(fn, left, right) ==
  [k \in DOMAIN left \cup DOMAIN right |->
     IF k \in DOMAIN left /\ k \in DOMAIN right
       THEN ReduceF(fn.reduce, left[k], right[k])
     ELSE IF k \in DOMAIN left THEN left[k] ELSE right[k]]

\* a HashMap iterated in the order h of its hasher: the (key, value) pairs
ToVec(m, h) ==
  LET ks == SelectSeq(h, LAMBDA k : k \in DOMAIN m)
  IN [i \in 1..Len(ks) |-> <<ks[i], m[ks[i]]>>]

\* sort_by_key: stable, ascending by key
SortByKey(key, vs) ==
  Cat([k \in 1..(MaxElem + 1) |-> SelectSeq(vs, LAMBDA e : KeyF(key, e) = k - 1)])

\* String::as_bytes of the string the element stands for
AsBytes(e) == <<120 + e>>

\* the lines written with "\n" between them, none after the last
SinkBytes_joined(vs) ==
  Cat([i \in 1..Len(vs) |-> IF i = 1 THEN AsBytes(vs[i]) ELSE <<10>> \o AsBytes(vs[i])])

\* what sink's closure writes to its file: every line, then "\n"
SinkBytes(vs) == Cat([i \in 1..Len(vs) |-> AsBytes(vs[i]) \o <<10>>])

\* a closure over one resolved value
Call1(fn, x, h) ==
  CASE fn.kind = "map" -> [i \in 1..Len(x) |-> MapF(fn, x[i])]
    [] fn.kind = "filter" -> SelectSeq(x, LAMBDA e : FilterF(fn.f, e))
    [] fn.kind = "bucket" -> [p \in 1..fn.n |-> Bucket(fn, x, p - 1)]
    [] fn.kind = "pick" -> x[fn.idx + 1]
    [] fn.kind = "fold" -> FoldLocal(fn, x)
    [] fn.kind = "to_vec" -> ToVec(x, h)
    [] fn.kind = "sort" -> SortByKey(fn.key, x)
    [] fn.kind = "flatten" -> Cat(x)
    [] fn.kind = "len" -> Len(x)
    [] fn.kind = "vec1" -> <<x>>
    [] fn.kind = "sink" -> <<Len(x)>>

\* a closure over two resolved values
Call2(fn, x, y) ==
  CASE fn.kind = "concat" -> x \o y
    [] fn.kind = "merge" -> MergeMaps(fn, x, y)
    [] fn.kind = "plus" -> x + y

RECURSIVE Eval(_, _)
\* the value a Deferred resolves to; h is the iteration order of the HashMaps
Eval(d, h) ==
  CASE d.op = "lift" -> d.val
    [] d.op = "apply" -> Call1(d.fn, Eval(d.deps[1], h), h)
    [] d.op = "join" -> Call2(d.fn, Eval(d.deps[1], h), Eval(d.deps[2], h))

RECURSIVE IsSub(_, _)
\* a is b or a Deferred b depends on
IsSub(a, b) == a = b \/ \E i \in DOMAIN b.deps : IsSub(a, b.deps[i])

RECURSIVE HasKind(_, _)
\* some closure of kind k is in the graph of d
HasKind(d, k) == d.fn.kind = k \/ \E i \in DOMAIN d.deps : HasKind(d.deps[i], k)

RECURSIVE Writes(_, _)
\* the files the sink closures in the graph of d write when d is resolved
Writes(d, h) ==
  UNION {Writes(d.deps[i], h) : i \in DOMAIN d.deps}
  \cup (IF d.fn.kind = "sink"
        THEN {[file |-> <<d.fn.path, d.fn.pos>>,
               content |-> SinkBytes(Eval(d.deps[1], h)), node |-> d]}
        ELSE {})

\* ------------------------------------------------------------ Collection
Ok(parts) == [ok |-> TRUE, partitions |-> parts]
Panic == [ok |-> FALSE, partitions |-> <<>>]

from_vec(vs) == <<Lift(vs)>>

n_partitions(self) == Len(self)

concat(self, other) == self \o other

\* map that hands the partitions on without applying f
map_without_f(self, f, tbl) == self

map(self, f, tbl) == batch_apply(self, MapFn(f, tbl))

filter(self, f) == batch_apply(self, FilterFn(f))

\* partition that pushes a chunk only for a bucket some source piece fills
partition_skipping_empty(self, partitions, f, key) ==
  LET stage1 == batch_apply(self, BucketFn(partitions, f, key))
      pieces(idx) == [s \in 1..Len(stage1) |-> Apply(stage1[s], PickFn(idx))]
      filled(idx) ==
        \E s \in 1..Len(stage1) :
          Eval(pieces(idx)[s], [i \in 1..(MaxElem + 1) |-> i - 1]) # <<>>
  IN Cat([b \in 1..partitions |->
            IF filled(b - 1) THEN tree_reduce(pieces(b - 1), ConcatFn) ELSE None])

\* partition: the local buckets, then for each bucket id the tree of its pieces
partition(self, partitions, f, key) ==
  LET stage1 == batch_apply(self, BucketFn(partitions, f, key))
      chunk(idx) ==
        tree_reduce([s \in 1..Len(stage1) |-> Apply(stage1[s], PickFn(idx))],
                    ConcatFn)
  IN Cat([b \in 1..partitions |-> chunk(b - 1)])

split(self, n_chunks) == partition(self, n_chunks, "idx", "")

partition_by_key(self, n_chunks, key) == partition(self, n_chunks, "hash", key)

\* fold_by: unwrap panics on the None of an empty list of partitions
fold_by(self, key, dflt, binop, reduce) ==
  LET stage1 == batch_apply(self, FoldFn(key, dflt, binop))
      reduction == tree_reduce(stage1, MergeFn(reduce))
  IN IF reduction = None THEN Panic
     ELSE Ok(<<Apply(reduction[1], ToVecFn)>>)

sort_by(self, key) == batch_apply(self, SortFn(key))

flatten(self) == batch_apply(self, FlattenFn)

count(self) ==
  LET nps == batch_apply(self, LenFn)
      cnt == tree_reduce(nps, PlusFn)
  IN IF cnt = None THEN Panic
     ELSE Ok(<<Apply(cnt[1], Vec1Fn)>>)

\* frequencies counting from one
frequencies_from_one(self) == fold_by(self, "id", 1, "inc", "add")

frequencies(self) == fold_by(self, "id", 0, "inc", "add")

sink(self, path) == batch_apply(self, SinkFn(path))

\* run, before the scheduler is asked: the root of the concatenation tree
run(self) == tree_reduce(self, ConcatFn)

\* ------------------------------------------------------ the program's state
\* A Collection, with how it was built: the call (op), the Collections it was
\* called on (src, src2: positions in colls) and the arguments (fn).
Coll(parts, typ, op, src, src2, fn) ==
  [partitions |-> parts, typ |-> typ,
   by |-> [op |-> op, src |-> src, src2 |-> src2, fn |-> fn]]

NoFiles == [k \in {} |-> <<>>]
NoRun == [coll |-> 0, val |-> None]
StaleFiles == <<"P", 0>> :> <<121>>

\* the successor table over Elem, and every table over Elem
SuccTbl == [i \in 1..(MaxElem + 1) |-> i % (MaxElem + 1)]
Tables == [1..(MaxElem + 1) -> Elem]

Paths == {"P", "Q"}

\* no Collection yet; with stale, the file P/0 of an earlier program is there
InitColl(lim, stale) ==
  /\ colls = <<>>
  /\ out = NoRun
  /\ forced = FALSE
  /\ panicked = FALSE
  /\ limit = lim
  /\ files = IF stale THEN StaleFiles ELSE NoFiles
  /\ dirs = IF stale THEN {"P"} ELSE {}

InitDisk ==
  /\ accs = <<>>
  /\ writers = <<>>
  /\ disk = NoFiles
  /\ streamed = None

\* a call that returns a new Collection, or panics where the code unwraps a None
Push(res, typ, op, src, src2, fn) ==
  /\ ~panicked
  /\ IF res.ok
       THEN /\ Len(colls) < limit
            /\ colls' = Append(colls, Coll(res.partitions, typ, op, src, src2, fn))
            /\ panicked' = FALSE
       ELSE /\ colls' = colls
            /\ panicked' = TRUE
  /\ UNCHANGED <<out, files, dirs, forced, limit>>
  /\ UNCHANGED diskVars

FromVec(v) == Push(Ok(from_vec(v)), "elem", "from_vec", 0, 0, NoFn)

\* from_vec of a vector of vectors: a Collection<Vec<A>>
FromVecs(vv) == Push(Ok(from_vec(vv)), "vec", "from_vec", 0, 0, NoFn)

Concat(i, j) ==
  /\ colls[i].typ = colls[j].typ
  /\ Push(Ok(concat(colls[i].partitions, colls[j].partitions)), colls[i].typ,
          "concat", i, j, NoFn)

\* map that has the scheduler resolve the new partitions before it returns
Map_eager(i, f, tbl) ==
  /\ colls[i].typ = "elem"
  /\ ~panicked
  /\ Len(colls) < limit
  /\ colls' = Append(colls, Coll(map(colls[i].partitions, f, tbl),
                                  IF f = "dup" THEN "vec" ELSE "elem", "map", i, 0,
                                  MapFn(f, tbl)))
  /\ forced' = TRUE
  /\ UNCHANGED <<out, files, dirs, panicked, limit>>
  /\ UNCHANGED diskVars

Map(i, f, tbl) ==
  /\ colls[i].typ = "elem"
  /\ Push(Ok(map(colls[i].partitions, f, tbl)),
          IF f = "dup" THEN "vec" ELSE "elem", "map", i, 0, MapFn(f, tbl))

Filter(i, f) ==
  /\ colls[i].typ = "elem"
  /\ Push(Ok(filter(colls[i].partitions, f)), "elem", "filter", i, 0, FilterFn(f))

Split(i, n) ==
  Push(Ok(split(colls[i].partitions, n)), colls[i].typ, "split", i, 0,
       BucketFn(n, "idx", ""))

Partition(i, n, f) ==
  /\ colls[i].typ = "elem"
  /\ Push(Ok(partition(colls[i].partitions, n, f, "")), "elem", "partition", i, 0,
          BucketFn(n, f, ""))

PartitionByKey(i, n, key) ==
  /\ colls[i].typ = "elem"
  /\ Push(Ok(partition_by_key(colls[i].partitions, n, key)), "elem",
          "partition_by_key", i, 0, BucketFn(n, "hash", key))

FoldBy(i, key, dflt, binop, reduce) ==
  /\ colls[i].typ = "elem"
  /\ Push(fold_by(colls[i].partitions, key, dflt, binop, reduce), "pair",
          "fold_by", i, 0,
          [FoldFn(key, dflt, binop) EXCEPT !.reduce = reduce])

SortBy(i, key) ==
  /\ colls[i].typ = "elem"
  /\ Push(Ok(sort_by(colls[i].partitions, key)), "elem", "sort_by", i, 0, SortFn(key))

Flatten(i) ==
  /\ colls[i].typ = "vec"
  /\ Push(Ok(flatten(colls[i].partitions)), "elem", "flatten", i, 0, NoFn)

Count(i) == Push(count(colls[i].partitions), "usize", "count", i, 0, NoFn)

Frequencies(i) ==
  /\ colls[i].typ = "elem"
  /\ Push(frequencies(colls[i].partitions), "pair", "frequencies", i, 0, NoFn)

Sink(i, path) ==
  /\ colls[i].typ = "elem"
  /\ Push(Ok(sink(colls[i].partitions, path)), "usize", "sink", i, 0, SinkFn(path))

\* the writes of ws to file k that no later write to k depends on
LastWrites(ws, k) ==
  {w \in ws : /\ w.file = k
              /\ \A w2 \in ws :
                   (w2.file = k /\ w2 # w) => ~IsSub(w.node, w2.node)}

\* the iteration orders that matter to the graph of d
Orders(d) ==
  IF HasKind(d, "to_vec") THEN Perms(Elem)
  ELSE {[i \in 1..(MaxElem + 1) |-> i - 1]}

\* run: None without a partition; else the scheduler resolves the root, and the
\* sink closures of the graph write their files
Run(i) ==
  /\ ~panicked
  /\ LET cat == run(colls[i].partitions)
     IN IF cat = None
          THEN /\ out' = [coll |-> i, val |-> None]
               /\ UNCHANGED <<files, dirs, forced>>
          ELSE \E h \in Orders(cat[1]) :
                 LET ws == Writes(cat[1], h)
                     ks == {w.file : w \in ws}
                 IN /\ out' = [coll |-> i, val |-> Some(Eval(cat[1], h))]
                    /\ forced' = TRUE
                    /\ dirs' = dirs \cup {k[1] : k \in ks}
                    /\ \E g \in [ks -> ws] :
                         /\ \A k \in ks : g[k] \in LastWrites(ws, k)
                         /\ files' = [k \in DOMAIN files \cup ks |->
                                        IF k \in ks THEN g[k].content ELSE files[k]]
  /\ UNCHANGED <<colls, panicked, limit>>
  /\ UNCHANGED diskVars

Ix == 1..Len(colls)
Counts == 0..MaxParts

\* ---------------------------------------------- every call, in any order
Init == InitColl(MaxColls, FALSE) /\ InitDisk

Next ==
  \/ \E v \in AnyVecs : FromVec(v)
  \/ FromVecs(<<<<1>>, <<>>, <<0, 1>>>>)
  \/ \E i \in Ix, j \in Ix : Concat(i, j)
  \/ \E i \in Ix : Map(i, "tbl", SuccTbl)
  \/ \E i \in Ix : Map(i, "dup", <<>>)
  \/ \E i \in Ix : Filter(i, "nonzero")
  \/ \E i \in Ix, n \in Counts : Split(i, n)
  \/ \E i \in Ix, n \in Counts : Partition(i, n, "elem")
  \/ \E i \in Ix, n \in Counts : PartitionByKey(i, n, "id")
  \/ \E i \in Ix : FoldBy(i, "parity", 0, "add", "add")
  \/ \E i \in Ix : SortBy(i, "rev")
  \/ \E i \in Ix : Flatten(i)
  \/ \E i \in Ix : Count(i)
  \/ \E i \in Ix : Frequencies(i)
  \/ \E i \in Ix, p \in Paths : Sink(i, p)
  \/ \E i \in Ix : Run(i)

Spec == Init /\ [][Next]_vars

\* ------------------------- from_vec, split, map, run: the pipeline of a map
InitPipe == InitColl(3, FALSE) /\ InitDisk

NextPipe ==
  \/ Len(colls) = 0 /\ \E v \in Vecs : FromVec(v)
  \/ Len(colls) = 1 /\ \E n \in Counts : Split(1, n)
  \/ Len(colls) = 2 /\ \E t \in Tables : Map(2, "tbl", t)
  \/ \E i \in Ix : Run(i)

SpecPipe == InitPipe /\ [][NextPipe]_vars

\* the source of the pipelines below: one vector, spread over k partitions
Spread ==
  \/ Len(colls) = 0 /\ \E v \in Vecs : FromVec(v)
  \/ Len(colls) = 1 /\ \E k \in Counts : Split(1, k)
  \/ Len(colls) = 1 /\ Concat(1, 1)

\* --------------------------------------------- repartitioning a Collection
PartFs == {"idx", "elem", "sum"}

NextPartition ==
  \/ Spread
  \/ Len(colls) = 2 /\ \E i \in Ix, n \in Counts, f \in PartFs : Partition(i, n, f)
  \/ Len(colls) = 2 /\ \E i \in Ix, n \in Counts : PartitionByKey(i, n, "parity")
  \/ \E i \in Ix : Run(i)

SpecPartition == InitPipe /\ [][NextPartition]_vars

\* ------------------------------------------------------ grouped aggregation
KeyFs == {"id", "const"}
Dflts == {0, 1}
BinopFs == {"inc", "add", "max"}
ReduceFs == {"add", "max"}

NextFold ==
  \/ Spread
  \/ Len(colls) = 2 /\ \E i \in Ix, key \in KeyFs, d \in Dflts, b \in BinopFs,
                           r \in ReduceFs : FoldBy(i, key, d, b, r)
  \/ Len(colls) = 2 /\ \E i \in Ix : Frequencies(i)
  \/ \E i \in Ix : Run(i)

SpecFold == InitPipe /\ [][NextFold]_vars

\* ------------------------------------------------------------------- sink
InitSink == (\E stale \in BOOLEAN : InitColl(3, stale)) /\ InitDisk

NextSink ==
  \/ Spread
  \/ Len(colls) = 2 /\ \E i \in Ix, p \in Paths : Sink(i, p)
  \/ \E i \in Ix : Run(i)

SpecSink == InitSink /\ [][NextSink]_vars

\* ------------------------------------------------- storage: interfaces.rs
\* The elements written are u16; bincode writes a Vec as its length (u64, little
\* endian), then every element (u16, little endian).
Items == {1, 258}
Roots == {"tmp", "void"}
Uuids == 1..MaxSessions

RECURSIVE LE(_, _)
\* n in w little-endian bytes
LE(n, w) == IF w = 0 THEN <<>> ELSE <<n % 256>> \o LE(n \div 256, w - 1)

RECURSIVE FromLE(_)
FromLE(bs) == IF bs = <<>> THEN 0 ELSE Head(bs) + 256 * FromLE(Tail(bs))

\* bincode::serialize_into of a Vec<u16>
serialize(buffer) ==
  LE(Len(buffer), 8) \o Cat([i \in 1..Len(buffer) |-> LE(buffer[i], 2)])

\* bincode::deserialize_from as a Vec<u16>: Err (None) when bytes are missing
deserialize(bytes) ==
  IF Len(bytes) < 8 THEN None
  ELSE LET n == FromLE(SubSeq(bytes, 1, 8))
       IN IF Len(bytes) < 8 + 2 * n THEN None
          ELSE Some([i \in 1..n |-> FromLE(SubSeq(bytes, 7 + 2 * i, 8 + 2 * i))])

\* Disk(root)
Disk(root) == [kind |-> "Disk", root_path |-> root, name |-> None]

\* FileStore::empty
empty(path) == [kind |-> "FileStore", root_path |-> path, name |-> None]

\* the FileStore that finish returns
FileStore(root, name) == [kind |-> "FileStore", root_path |-> root, name |-> Some(name)]

\* a file name that leaves the uuid out
FileName_without_uuid(root, uuid) == <<root, 0>>

\* the name finish gives its file: root/tange-<uuid>
FileName(root, uuid) == <<root, uuid>>

\* Uuid::new_v4: an identifier no earlier call returned
NewV4 == Uuids \ {k[2] : k \in DOMAIN disk}

\* the accumulators the program starts with
BaseAccs == <<Disk("tmp"), empty("tmp"), Disk("void")>>

InitStore(lim) ==
  /\ InitColl(lim, FALSE)
  /\ accs = BaseAccs
  /\ writers = <<>>
  /\ disk = NoFiles
  /\ streamed = [acc |-> 0, val |-> <<>>]

\* Accumulator::writer of Disk and of FileStore: a DiskBuffer with an empty buffer
\* (from: the accumulator it was opened from; made: the accumulator finish returned)
\* (added: the items handed to add, in the order of the calls)
writer(a) ==
  [root_path |-> accs[a].root_path, buffer |-> <<>>, open |-> TRUE,
   from |-> a, made |-> 0, added |-> <<>>]

\* add that puts the item in front
add_front(buf, item) == [buf EXCEPT !.buffer = <<item>> \o @]

\* ValueWriter::add of DiskBuffer
add(buf, item) == [buf EXCEPT !.buffer = Append(@, item)]

RECURSIVE extend(_, _)
\* ValueWriter::extend: add, for every item of the iterator
extend(buf, items) ==
  IF items = <<>> THEN buf ELSE extend(add(buf, Head(items)), Tail(items))

Writer(a) ==
  /\ ~panicked
  /\ Len(writers) < limit
  /\ writers' = Append(writers, writer(a))
  /\ UNCHANGED <<accs, disk, streamed>>
  /\ UNCHANGED collVars

Add(w, item) ==
  /\ ~panicked
  /\ writers[w].open
  /\ Len(writers[w].added) < MaxBuf
  /\ writers' = [writers EXCEPT ![w] = [add(@, item) EXCEPT !.added = Append(@, item)]]
  /\ UNCHANGED <<accs, disk, streamed>>
  /\ UNCHANGED collVars

Extend(w, items) ==
  /\ ~panicked
  /\ writers[w].open
  /\ Len(writers[w].added) + Len(items) <= MaxBuf
  /\ writers' = [writers EXCEPT ![w] = [extend(@, items) EXCEPT !.added = @ \o items]]
  /\ UNCHANGED <<accs, disk, streamed>>
  /\ UNCHANGED collVars

\* what finish does with a DiskBuffer: File::create under the root (a panic when
\* the root is no directory), the buffer serialized into it, the FileStore returned
finish(buf, uuid) ==
  LET name == FileName(buf.root_path, uuid)
  IN IF buf.root_path \notin {"tmp"} THEN [ok |-> FALSE, disk |-> disk, acc |-> accs]
     ELSE [ok |-> TRUE,
           disk |-> [k \in DOMAIN disk \cup {name} |->
                       IF k = name THEN serialize(buf.buffer) ELSE disk[k]],
           acc |-> Append(accs, FileStore(buf.root_path, name))]

Finish(w) ==
  /\ ~panicked
  /\ writers[w].open
  /\ \E uuid \in NewV4 :
       LET r == finish(writers[w], uuid)
       IN /\ panicked' = ~r.ok
          /\ disk' = r.disk
          /\ accs' = r.acc
          /\ writers' = [writers EXCEPT ![w].open = FALSE,
                                        ![w].made = IF r.ok THEN Len(r.acc) ELSE 0]
  /\ UNCHANGED <<streamed, colls, out, files, dirs, forced, limit>>

\* Accumulator::write_vec: writer, add for every element, finish
WriteVec(a, vs) ==
  /\ ~panicked
  /\ Len(writers) < limit
  /\ \E uuid \in NewV4 :
       LET buf == [extend(writer(a), vs) EXCEPT !.added = vs]
           r == finish(buf, uuid)
       IN /\ panicked' = ~r.ok
          /\ disk' = r.disk
          /\ accs' = r.acc
          /\ writers' = Append(writers,
                               [buf EXCEPT !.open = FALSE,
                                           !.made = IF r.ok THEN Len(r.acc) ELSE 0])
  /\ UNCHANGED <<streamed, colls, out, files, dirs, forced, limit>>

\* Stream::stream of FileStore: the file opened and deserialized (a panic when it
\* is missing or cut short); no file name, the empty Vec
stream(acc) ==
  IF acc.name = None THEN Some(<<>>)
  ELSE IF acc.name[1] \notin DOMAIN disk THEN None
  ELSE deserialize(disk[acc.name[1]])

Stream(a) ==
  /\ ~panicked
  /\ accs[a].kind = "FileStore"
  /\ LET r == stream(accs[a])
     IN IF r = None
          THEN panicked' = TRUE /\ UNCHANGED streamed
          ELSE panicked' = FALSE /\ streamed' = [acc |-> a, val |-> r[1]]
  /\ UNCHANGED <<accs, writers, disk, colls, out, files, dirs, forced, limit>>

Bufs == UNION {[1..n -> Items] : n \in 1..MaxBuf}

\* ------------------------------------- one write session, any items, streams
NextRoundTrip ==
  \/ \E a \in 1..Len(accs) : Writer(a)
  \/ \E w \in 1..Len(writers), item \in Items : Add(w, item)
  \/ \E w \in 1..Len(writers), items \in Bufs : Extend(w, items)
  \/ \E w \in 1..Len(writers) : Finish(w)
  \/ \E a \in 1..Len(accs), vs \in Bufs : WriteVec(a, vs)
  \/ \E a \in 1..Len(accs) : Stream(a)

SpecRoundTrip == InitStore(1) /\ [][NextRoundTrip]_vars

\* ------------- write sessions interleaved, session w writing the item Mark(w)
Mark(w) == 257 * w

NextStore ==
  \/ \E a \in 1..Len(accs) : Writer(a)
  \/ \E w \in 1..Len(writers) : Add(w, Mark(w))
  \/ \E w \in 1..Len(writers) : Extend(w, <<Mark(w), Mark(w)>>)
  \/ \E w \in 1..Len(writers) : Finish(w)
  \/ \E a \in 1..Len(accs) : WriteVec(a, <<Mark(Len(writers) + 1)>>)
  \/ \E a \in 1..Len(accs) : Stream(a)

SpecStore == InitStore(MaxSessions) /\ [][NextStore]_vars

\* ================================================================ claims
IdOrder == [i \in 1..(MaxElem + 1) |-> i - 1]

\* how often e occurs in the sequence s
Occ(s, e) == Len(SelectSeq(s, LAMBDA x : x = e))

\* two sequences over Elem with the same elements, each as often
SameBag(a, b) == Len(a) = Len(b) /\ \A e \in Elem : Occ(a, e) = Occ(b, e)

\* the values the partitions of Collection c resolve to
PartVals(c) ==
  [p \in 1..Len(colls[c].partitions) |-> Eval(colls[c].partitions[p], IdOrder)]

\* the vector the first Collection was lifted from
Lifted == colls[1].partitions[1].val

\* ----------------------------------------------------------------- C1
PipeN == colls[2].by.fn.n
PipeMapped == [i \in 1..Len(Lifted) |-> colls[3].by.fn.tbl[Lifted[i] + 1]]
PipeRan == Len(colls) = 3 /\ out.coll = 3 /\ PipeN >= 1

\* C1 as stated: from_vec(v).split(n).map(f).run() is [f(v[0]), ..., f(v[len-1])]
\* in the order of v for every n >= 1, and from_vec(v).run() is v.
C1_OrderKept ==
  /\ out.coll = 1 => out.val = Some(Lifted)
  /\ PipeRan => out.val = Some(PipeMapped)

\* C1, amended: from_vec(v).split(n).map(f).run() holds the elements f(v[i]), each
\* as often as in [f(v[0]), ..., f(v[len-1])]; it is in the order of v when n = 1,
\* and from_vec(v).run() is v.
C1_SameElements ==
  /\ out.coll = 1 => out.val = Some(Lifted)
  /\ PipeRan => /\ out.val # None
                /\ SameBag(out.val[1], PipeMapped)
                /\ PipeN = 1 => out.val[1] = PipeMapped

\* C1's case: a vector of full length, split in two, mapped by a table that is
\* not constant, run, and the result in another order than v
C1_Witness ==
  /\ PipeRan
  /\ PipeN = 2
  /\ Len(Lifted) = MaxLen
  /\ colls[3].by.fn.tbl[1] # colls[3].by.fn.tbl[2]
  /\ out.val # Some(PipeMapped)

\* ----------------------------------------------------------------- C2
Repartitioned(c) == colls[c].by.op \in {"split", "partition", "partition_by_key"}

\* the bucket the code's contract gives element e at position idx of its partition
BucketOf(c, idx, e) ==
  PartF(colls[c].by.fn.f, colls[c].by.fn.key, idx, e) % colls[c].by.fn.n

\* the places <<source partition, position>> of the source of c holding e bound for b
Bound(c, b, e) ==
  LET sp == PartVals(colls[c].by.src)
  IN {si \in UNION {{<<s, i>> : i \in 1..Len(sp[s])} : s \in 1..Len(sp)} :
        sp[si[1]][si[2]] = e /\ BucketOf(c, si[2] - 1, e) = b}

\* the output partition of c at index b, empty when there is none
OutPart(c, b) == IF b + 1 <= Len(colls[c].partitions) THEN PartVals(c)[b + 1] ELSE <<>>

\* C2: partition(n, f), n >= 1, yields at most n partitions, and every element of
\* the source is, as often as it occurs, in the output partition at index
\* f(local_index, element) mod n and in no other.
C2_Buckets ==
  \A c \in Ix :
    (Repartitioned(c) /\ colls[c].by.fn.n >= 1) =>
      /\ Len(colls[c].partitions) <= colls[c].by.fn.n
      /\ \A b \in 0..(colls[c].by.fn.n - 1), e \in Elem :
           Occ(OutPart(c, b), e) = Cardinality(Bound(c, b, e))

\* C2's case: a source of two partitions, repartitioned in two by a function that
\* is not the position, with elements in both output partitions
C2_Witness ==
  \E c \in Ix :
    /\ colls[c].by.op = "partition"
    /\ colls[c].by.fn.f = "sum"
    /\ colls[c].by.fn.n = 2
    /\ Len(colls[colls[c].by.src].partitions) = 2
    /\ OutPart(c, 0) # <<>>
    /\ Len(OutPart(c, 1)) >= 2

\* ----------------------------------------------------------------- C3
\* the bucket ids of c that some element of the source is bound for
Filled(c) ==
  {b \in 0..(colls[c].by.fn.n - 1) : \E e \in Elem : Bound(c, b, e) # {}}

\* C3 as stated: a bucket no element is bound for yields no output partition, so
\* partition(n, f) has as many partitions as buckets that receive an element.
C3_EmptyBucketAbsent ==
  \A c \in Ix :
    Repartitioned(c) => Len(colls[c].partitions) = Cardinality(Filled(c))

\* C3, amended: on a source with at least one partition every bucket id in [0, n)
\* yields an output partition, an empty one when no element is bound for it, so
\* the result has exactly n partitions; it has fewer (none) only on a source
\* without partitions.
C3_EmptyBucketKept ==
  \A c \in Ix :
    Repartitioned(c) =>
      IF Len(colls[colls[c].by.src].partitions) = 0
        THEN Len(colls[c].partitions) = 0
        ELSE /\ Len(colls[c].partitions) = colls[c].by.fn.n
             /\ \A b \in 0..(colls[c].by.fn.n - 1) :
                  b \notin Filled(c) => PartVals(c)[b + 1] = <<>>

\* C3's case: a partition(2, f) of a source with partitions and elements, one
\* bucket of which receives nothing
C3_Witness ==
  \E c \in Ix :
    /\ colls[c].by.op = "partition"
    /\ colls[c].by.fn.n = 2
    /\ Len(colls[colls[c].by.src].partitions) = 2
    /\ Filled(c) = {1}

\* ----------------------------------------------------------------- C4
\* the elements of the source of the pipelines, however they were spread
InputOf(c) ==
  IF c = 2 /\ colls[2].by.op = "concat" THEN Lifted \o Lifted ELSE Lifted

RECURSIVE FoldOver(_, _, _)
\* binop folded over the elements xs, from acc
FoldOver(binop, xs, acc) ==
  IF xs = <<>> THEN acc ELSE FoldOver(binop, Tail(xs), BinopF(binop, acc, Head(xs)))

\* for every key of the elements xs, the fold over the elements of that key
Aggregates(fn, xs) ==
  [k \in {KeyF(fn.key, xs[i]) : i \in 1..Len(xs)} |->
     FoldOver(fn.binop, SelectSeq(xs, LAMBDA x : KeyF(fn.key, x) = k), fn.dflt)]

\* a sequence of (key, value) pairs is the mapping m: every key of m once
IsMapping(pairs, m) ==
  /\ Len(pairs) = Cardinality(DOMAIN m)
  /\ \A i \in 1..Len(pairs) : pairs[i][1] \in DOMAIN m /\ pairs[i][2] = m[pairs[i][1]]

Accs == 0..(2 * MaxLen + 1)

\* default() is neutral for reduce, and reduce moves across binop
Compatible(fn) ==
  \A a \in Accs, b \in Accs, x \in Elem :
    /\ ReduceF(fn.reduce, a, fn.dflt) = a
    /\ ReduceF(fn.reduce, a, BinopF(fn.binop, b, x))
         = BinopF(fn.binop, ReduceF(fn.reduce, a, b), x)

FoldRan == out.coll \in Ix /\ colls[out.coll].by.op = "fold_by" /\ out.val # None

\* C4 as stated: with an associative and commutative reduce, fold_by yields one
\* partition of (key, aggregate) pairs, one per distinct key, each aggregate the
\* fold of binop from default() over the elements of that key, whatever the number
\* of partitions (>= 1) of the source.
C4_AnyReduce ==
  FoldRan =>
    /\ Len(colls[out.coll].partitions) = 1
    /\ IsMapping(out.val[1],
                 Aggregates(colls[out.coll].by.fn, InputOf(colls[out.coll].by.src)))

\* C4, amended: the same, provided also that default() is neutral for reduce and
\* reduce(a, binop(b, x)) = binop(reduce(a, b), x).
C4_CompatibleReduce ==
  (FoldRan /\ Compatible(colls[out.coll].by.fn)) =>
    /\ Len(colls[out.coll].partitions) = 1
    /\ IsMapping(out.val[1],
                 Aggregates(colls[out.coll].by.fn, InputOf(colls[out.coll].by.src)))

\* C4's case: a compatible fold_by with max over a source of two partitions that
\* share a key with different local aggregates, run
C4_Witness ==
  /\ FoldRan
  /\ colls[out.coll].by.fn.binop = "max"
  /\ Compatible(colls[out.coll].by.fn)
  /\ colls[out.coll].by.fn.key = "const"
  /\ colls[out.coll].by.src = 2
  /\ Len(colls[2].partitions) = 2
  /\ \E e \in Elem : Occ(PartVals(2)[1], e) # Occ(PartVals(2)[2], e)
  /\ PartVals(2)[1] # <<>> /\ PartVals(2)[2] # <<>>

\* ----------------------------------------------------------------- C5
FreqRan == out.coll \in Ix /\ colls[out.coll].by.op = "frequencies" /\ out.val # None

\* C5: frequencies yields one partition holding one pair (e, c) per distinct
\* element e of the source, c the number of occurrences of e in the whole source,
\* whatever the number of partitions (>= 1) the source is spread over.
C5_Frequencies ==
  FreqRan =>
    LET xs == InputOf(colls[out.coll].by.src)
    IN /\ Len(colls[out.coll].partitions) = 1
       /\ IsMapping(out.val[1], [e \in {xs[i] : i \in 1..Len(xs)} |-> Occ(xs, e)])

\* C5's case: frequencies over two partitions that both hold an element, with
\* two distinct elements in the source, run
C5_Witness ==
  /\ FreqRan
  /\ colls[out.coll].by.src = 2
  /\ Len(colls[2].partitions) = 2
  /\ \E e \in Elem : Occ(PartVals(2)[1], e) > 0 /\ Occ(PartVals(2)[2], e) > 0
  /\ Len(out.val[1]) = 2

\* ----------------------------------------------------------------- C8
Sunk(c) == colls[c].by.op = "sink"

RECURSIVE Lines(_)
\* the bytes of a text file with the lines vs, each ended by a newline
Lines(vs) ==
  IF vs = <<>> THEN <<>> ELSE AsBytes(Head(vs)) \o <<10>> \o Lines(Tail(vs))

\* the files of sink's contract for Collection c are there
SinkFiles(c) ==
  LET sp == PartVals(colls[c].by.src)
      path == colls[c].by.fn.path
  IN /\ path \in dirs
     /\ \A i \in 0..(Len(sp) - 1) :
          /\ <<path, i>> \in DOMAIN files
          /\ files[<<path, i>>] = Lines(sp[i + 1])

\* the i-th partition of c is the one-element list of the i-th line count
SinkCounts(c) ==
  LET sp == PartVals(colls[c].by.src)
  IN PartVals(c) = [i \in 1..Len(sp) |-> <<Len(sp[i])>>]

\* C8 as stated: sink(path) is terminal: once it has returned, the directory is
\* there and every file path/i holds the lines of partition i.
C8_SinkIsTerminal == \A c \in Ix : Sunk(c) => SinkFiles(c) /\ SinkCounts(c)

\* C8, amended: sink(path) computes and writes nothing itself; once the Collection
\* it returned is run, the directory is there, every file path/i holds the lines
\* of partition i of the source, each followed by a newline, whatever the file
\* held before, and the i-th partition of the result is the one-element list of
\* the line count of partition i.
C8_SinkOnRun ==
  /\ ~forced => files \in {NoFiles, StaleFiles}
  /\ \A c \in Ix : Sunk(c) => SinkCounts(c)
  /\ (out.coll \in Ix /\ Sunk(out.coll) /\ out.val # None) =>
       /\ SinkFiles(out.coll)
       /\ out.val[1] = Cat(PartVals(out.coll))

\* C8's case: a source of two partitions with lines in both, sunk to P and run
C8_Witness ==
  /\ out.coll \in Ix /\ Sunk(out.coll) /\ out.val # None
  /\ colls[out.coll].by.fn.path = "P"
  /\ Len(PartVals(colls[out.coll].by.src)) = 2
  /\ \A p \in 1..2 : PartVals(colls[out.coll].by.src)[p] # <<>>
  /\ Len(PartVals(colls[out.coll].by.src)[1]) = 2

\* ----------------------------------------------------------------- C7
\* C7: a call that returns a new Collection has no function applied and no
\* partition resolved: the scheduler is not asked, no result and no file appears,
\* and the Collections there were are as they were.
C7_Lazy ==
  [][Len(colls') > Len(colls) =>
       /\ forced' = forced
       /\ out' = out
       /\ files' = files
       /\ dirs' = dirs
       /\ SubSeq(colls', 1, Len(colls)) = colls]_vars

\* C7's case: a transformation was called on a Collection and nothing has run
C7_Witness ==
  /\ Len(colls) = 2
  /\ colls[2].by.op = "map"
  /\ ~forced
  /\ out = NoRun

\* ----------------------------------------------------------------- C9
\* C9: no call of the API panics where it is called.
C9_NoCallPanics == ~panicked

\* ----------------------------------------------------------------- C6
\* the sessions that finish closed with the accumulator a
SessionsOf(a) == {w \in 1..Len(writers) : writers[w].made = a}

\* C6: a FileStore that finish returned streams the items added in its session,
\* in the order they were added; a FileStore without a file name streams as the
\* empty sequence, and its stream does not fail.
C6_RoundTrip ==
  /\ \A a \in 1..Len(accs) :
       (accs[a].kind = "FileStore" /\ accs[a].name = None) => stream(accs[a]) = Some(<<>>)
  /\ streamed.acc # 0 =>
       IF accs[streamed.acc].name = None THEN streamed.val = <<>>
       ELSE /\ SessionsOf(streamed.acc) # {}
            /\ \A w \in SessionsOf(streamed.acc) : streamed.val = writers[w].added

\* C6's case: a session of MaxBuf different items, finished, and streamed
C6_Witness ==
  /\ streamed.acc # 0
  /\ accs[streamed.acc].name # None
  /\ Len(streamed.val) = MaxBuf
  /\ streamed.val[1] # streamed.val[2]

\* ----------------------------------------------------------------- C10
Finished == {w \in 1..Len(writers) : writers[w].made # 0}

\* C10: the accumulators there are never change (FileStore::empty still streams
\* as empty), finish names a file that was not there and no handle names the
\* file of another session, and every finished handle streams what its own
\* session added.
C10_Isolated ==
  /\ [](/\ stream(accs[2]) = Some(<<>>)
        /\ \A w \in Finished : stream(accs[writers[w].made]) = Some(writers[w].added)
        /\ \A w1 \in Finished, w2 \in Finished :
             w1 # w2 => accs[writers[w1].made].name # accs[writers[w2].made].name)
  /\ [][/\ SubSeq(accs', 1, Len(accs)) = accs
        /\ Len(accs') > Len(accs) => accs'[Len(accs')].name[1] \notin DOMAIN disk]_vars

\* C10's case: two finished sessions with different items, the second opened from
\* the FileStore of the first, and the first streamed
C10_Witness ==
  /\ Len(writers) = 2
  /\ Finished = {1, 2}
  /\ writers[2].from = writers[1].made
  /\ writers[1].added # writers[2].added
  /\ writers[1].added # <<>>
  /\ streamed.acc = writers[1].made
  /\ streamed.val = writers[1].added

====
